---- MODULE Spec2Model ----
(***************************************************************************)
(* Focaltech FT8756 touchscreen driver                                     *)
(* (drivers/input/touchscreen/ft8756.c): the SPI register transport        *)
(* (ft8756_spi_write / ft8756_spi_read), the chip identification           *)
(* (ft8756_check_chip_id) built on it through regmap, the report decoder   *)
(* (ft8756_report) and the interrupt handler, power management and panel   *)
(* follower callbacks that enable and disable the interrupt, as state      *)
(* machines.                                                               *)
(*                                                                         *)
(* Buffers are sequences of bytes; C index k is TLA+ index k + 1 (At).     *)
(* One transport call is: an entry step (allocation and frame set-up), one *)
(* step per iteration of the retry loop (the bus and the chip choose the   *)
(* outcome of the exchange), and the return step.                          *)
(***************************************************************************)
EXTENDS Integers, Sequences, FiniteSets, TLC

(***************************************************************************)
(* Program constants.                                                      *)
(***************************************************************************)
FT8756_MAX_RETRIES == 3
DATA_CRC_EN == 32
WRITE_CMD == 0
READ_CMD_BASE == 128
STATUS_MASK == 160
CRC_SEED == 65535
CRC_POLY == 33800
EIO == 5
ENOMEM == 12
ENODEV == 19
FT8756_CMD_START1 == 85
FT8756_CMD_START2 == 170
FT8756_CMD_READ_ID == 144
REG_CHIP_ID_H == 163
REG_CHIP_ID_L == 159
CHIP_ID_PRIMARY == 22098
CHIP_ID_SECONDARY == 34646
TOUCH_DEFAULT_MAX_WIDTH == 1080
TOUCH_DEFAULT_MAX_HEIGHT == 2400
TOUCH_MAX_FINGER_NUM == 10
TOUCH_MAX_PRESSURE == 255
POINT_DATA_LEN == 62

At(buf, k) == buf[k + 1]

Zeros(n) == [k \in 1..n |-> 0]

(***************************************************************************)
(* Bounds of the model and the small sets the environment draws from.      *)
(***************************************************************************)
\* transport calls issued by a generic regmap user in one behaviour
MaxCalls == 2

\* error codes spi_sync may hand back (-ETIMEDOUT)
BusErrors == {-110}

\* status bytes the chip may put at response offset 3:
\* clear, an error bit set, and a byte with only non-error bits set
StatusVals == {0, 32, 95}

\* what a caller's buffer byte may hold before a read (stack garbage included)
StaleBytes == {0, 86}

\* the reads the driver issues during identification: register and size
ReadInputs == {<<163, 1>>, <<159, 1>>, <<144, 2>>}

\* the writes the driver issues, the handshake and the sleep command, a
\* bare one-byte command and a command with two bytes after the register
WriteInputs == {<<85, 170>>, <<3, 3>>, <<8>>, <<173, 1, 2>>}

\* payloads the chip may answer to a read of size n from register reg:
\* the identity bytes, or something else
ChipPayloads(reg, n) ==
    IF n = 1 THEN (IF reg = 163 THEN {<<86>>, <<0>>} ELSE {<<82>>, <<0>>})
    ELSE IF n = 2 THEN {<<135, 86>>, <<86, 135>>}
    ELSE {Zeros(n)}

(***************************************************************************)
(* C integer operators on naturals.                                        *)
(***************************************************************************)
RECURSIVE BitAnd(_, _)
BitAnd(a, b) ==
    IF a = 0 \/ b = 0 THEN 0
    ELSE (a % 2) * (b % 2) + 2 * BitAnd(a \div 2, b \div 2)

RECURSIVE BitOr(_, _)
BitOr(a, b) ==
    IF a = 0 THEN b
    ELSE IF b = 0 THEN a
    ELSE (IF a % 2 = 1 \/ b % 2 = 1 THEN 1 ELSE 0) + 2 * BitOr(a \div 2, b \div 2)

RECURSIVE BitXor(_, _)
BitXor(a, b) ==
    IF a = 0 THEN b
    ELSE IF b = 0 THEN a
    ELSE ((a + b) % 2) + 2 * BitXor(a \div 2, b \div 2)

READ_CMD == BitOr(READ_CMD_BASE, DATA_CRC_EN)

(***************************************************************************)
(* CRC-16 of the read path: crc ^= byte, then 8 rounds of                  *)
(* crc = crc & 1 ? (crc >> 1) ^ 0x8408 : crc >> 1.                         *)
(***************************************************************************)
CrcRound(c) ==
    IF c % 2 = 1 THEN BitXor(c \div 2, CRC_POLY) ELSE c \div 2

RECURSIVE CrcRounds(_, _)
CrcRounds(c, k) ==
    IF k = 0 THEN c ELSE CrcRounds(CrcRound(c), k - 1)

CrcByte(c, b) == CrcRounds(BitXor(c, b), 8)

\* the accumulation loop over rxBuf[dp .. dp + n - 1], continuing from c
RECURSIVE CrcAccumulate(_, _, _, _)
CrcAccumulate(c, rx, from, n) ==
    IF n = 0 THEN c
    ELSE CrcAccumulate(CrcByte(c, At(rx, from)), rx, from + 1, n - 1)

\* the received word read high byte first
CrcRead_HighFirst(rx, len) ==
    (((At(rx, len - 2) * 256) % 65536) + At(rx, len - 1)) % 65536

\* u16 crc_read = (u16)(rxBuf[txlen - 1] << 8) + rxBuf[txlen - 2]
CrcRead(rx, len) ==
    (((At(rx, len - 1) * 256) % 65536) + At(rx, len - 2)) % 65536

\* a status test that demands the whole byte to be zero
StatusOk_WholeByte(rx) == At(rx, 3) = 0

\* (rxBuf[3] & 0xA0) == 0
StatusOk(rx) == BitAnd(At(rx, 3), STATUS_MASK) = 0

\* a loop condition that is off by one
LoopContinues_OffByOne(k) == k <= FT8756_MAX_RETRIES

\* the loop condition i < FT8756_MAX_RETRIES
LoopContinues(k) == k < FT8756_MAX_RETRIES

(***************************************************************************)
(* State.                                                                  *)
(*   transport call: pc, fn, txBuf, txlen, rxBuf, dp, crc, i, ret,         *)
(*     val_buf, val_size, rv (the value returned), calls                   *)
(*   observers of the current call: buf0 (val_buf before the call), hist   *)
(*     (what each exchange really was: "bus", "status", "crc", "valid"),   *)
(*     accepted (the loop was left by break), settles (usleep_range calls) *)
(*   devres: the transfer buffers the device's managed resources hold      *)
(*     (devm_kzalloc adds one, nothing in the driver takes one away)       *)
(*   ft8756_check_chip_id: idpc, buf, chip_id, id_rv (its result), little, *)
(*     idlog (the outcome of each transport call it made), variant (the    *)
(*     return path taken: "primary", "secondary" or "none"), idtrace (what *)
(*     it did to the reset line, its sleeps and the transport calls it     *)
(*     issued, in order)                                                   *)
(***************************************************************************)
VARIABLES pc, fn, txBuf, txlen, rxBuf, dp, crc, i, ret, val_buf, val_size,
          rv, calls, buf0, hist, accepted, settles, devres,
          idpc, buf, chip_id, id_rv, little, idlog, variant, idtrace

(***************************************************************************)
(* The interrupt and the report decoder:                                   *)
(*   follower   drm_is_panel_follower(dev)                                 *)
(*   irq_depth  the disable depth of ts->irq (0: enabled)                  *)
(*   thread     the interrupt thread: "idle", "woken" (the interrupt fired *)
(*              and the handler is about to run), "running" (inside        *)
(*              ft8756_irq_handler, before ft8756_report), "reported"      *)
(*              (ft8756_report returned, enable_irq not yet called)        *)
(*   suspended  between ft8756_pm_suspend and ft8756_pm_resume             *)
(*   panel      what the panel last told its follower: "none",             *)
(*              "prepared", "unpreparing" (inside disable_irq),            *)
(*              "unprepared"                                               *)
(*   max_x, max_y  ts->prop.max_x, ts->prop.max_y                          *)
(*   point      the report buffer of the current ft8756_report             *)
(*   report_ret the result of its regmap_raw_read                          *)
(*   events     the calls made to the input device by the current          *)
(*              ft8756_report, in order                                    *)
(*   abs_obj    ts->abs_obj                                                *)
(*   regmap_lock  who holds the lock of ts->regmap: "none", "irq" (the     *)
(*              report read) or "sleep" (the sleep command)                *)
(*   sleep_pc   ft8756_internal_pm_suspend: "none", "lock" (called, its    *)
(*              regmap_write not yet in possession of the lock), "write"   *)
(*              (the write is in progress)                                 *)
(* thread is "reading" while the read of ft8756_report is in progress, and *)
(* panel is "sleep" while panel_unpreparing is in                          *)
(* ft8756_internal_pm_suspend.                                             *)
(***************************************************************************)
VARIABLES follower, irq_depth, thread, suspended, panel, max_x, max_y,
          point, report_ret, events, abs_obj, regmap_lock, sleep_pc

(***************************************************************************)
(* ft8756_spi_probe:                                                       *)
(*   ppc            where the probe is: "start", "identify" (inside        *)
(*                  ft8756_check_chip_id), "config" (about to call         *)
(*                  ft8756_input_dev_config), "request" (about to request  *)
(*                  the interrupt), "done" (returned 0), "failed"          *)
(*   probe_rv       the value the probe returned                           *)
(*   input          ts->input: allocated or not, the number of its slots,  *)
(*                  registered or not                                      *)
(*   irq_requested  devm_request_threaded_irq succeeded                    *)
(***************************************************************************)
VARIABLES ppc, probe_rv, input, irq_requested

xferVars == <<pc, fn, txBuf, txlen, rxBuf, dp, crc, i, ret, val_buf, val_size,
              rv, calls, buf0, hist, accepted, settles, devres>>
idVars == <<idpc, buf, chip_id, id_rv, little, idlog, variant, idtrace>>
touchVars == <<follower, irq_depth, thread, suspended, panel, max_x, max_y,
               point, report_ret, events, abs_obj, regmap_lock, sleep_pc>>
probeVars == <<ppc, probe_rv, input, irq_requested>>
vars == <<xferVars, idVars, touchVars, probeVars>>

(***************************************************************************)
(* What the bus delivers.                                                  *)
(***************************************************************************)
\* the CRC a correct chip appends to payload d
GoodCrc(d) == CrcAccumulate(CRC_SEED, d, 0, Len(d))

\* a received CRC word that does not belong to payload d
BadCrc(d) == BitXor(GoodCrc(d), 1)

\* a read response: status at offset 3, payload from offset 7, then the CRC
\* word low byte first
ReadRx(st, d, w) == <<0, 0, 0, st, 0, 0, 0>> \o d \o <<w % 256, w \div 256>>

\* what an exchange that delivered status st, payload d and CRC word w
\* really was
ReadClass(st, d, w) ==
    IF BitAnd(st, 160) # 0 THEN "status"
    ELSE IF w # GoodCrc(d) THEN "crc"
    ELSE "valid"

\* the responses the chip may give to a read of n bytes from reg, each with
\* what it really is
ReadResponses(reg, n) ==
    UNION { { [rx |-> ReadRx(st, d, w), cls |-> ReadClass(st, d, w)]
              : st \in StatusVals, w \in {GoodCrc(d), BadCrc(d)} }
            : d \in ChipPayloads(reg, n) }

ReadResponseTable == [in \in ReadInputs |-> ReadResponses(in[1], in[2])]

\* a write response: only the status byte matters
WriteRx(st, len) == [k \in 1..len |-> IF k = 4 THEN st ELSE 0]

WriteClass(st) == IF BitAnd(st, 160) = 0 THEN "valid" ELSE "status"

WriteResponses(len) ==
    { [rx |-> WriteRx(st, len), cls |-> WriteClass(st)] : st \in StatusVals }

(***************************************************************************)
(* ft8756_spi_read                                                         *)
(***************************************************************************)
\* the bus stores the bytes of an exchange at the start of the receive
\* buffer; what lies behind them stays
Received(old, rx) == rx \o SubSeq(old, Len(rx) + 1, Len(old))

\* the buffers the entry has allocated when it returns -ENOMEM: none when
\* the devm_kzalloc of txBuf fails, txBuf when that of rxBuf fails
AllocatedBeforeFailure == {0, 1}

\* the buffers of an entry whose allocations both succeed: txBuf and rxBuf
AllocatedByEntry == 2

\* a devm_kzalloc of the entry fails: -ENOMEM before any exchange; what was
\* allocated stays with the device
AllocFails(f, callerBuf) ==
    /\ \E got \in AllocatedBeforeFailure : devres' = devres + got
    /\ pc' = "returned"
    /\ fn' = f
    /\ rv' = -ENOMEM
    /\ calls' = calls + 1
    /\ val_buf' = callerBuf
    /\ buf0' = callerBuf
    /\ hist' = <<>>
    /\ accepted' = FALSE
    /\ settles' = 0
    /\ txBuf' = <<>>
    /\ rxBuf' = <<>>
    /\ txlen' = 0
    /\ dp' = 0
    /\ crc' = CRC_SEED
    /\ i' = 0
    /\ ret' = 0
    /\ val_size' = Len(callerBuf)

\* a header whose command byte lacks DATA_CRC_EN
ReadHeader_NoCrc(reg, n) == <<reg, 128, (n \div 256) % 256, n % 256>>

\* the header of a read: register, READ_CMD, size high byte, size low byte
ReadHeader(reg, n) == <<reg, READ_CMD, (n \div 256) % 256, n % 256>>

\* dp = txlen + 3 after the 4 header bytes
ReadDp == 4 + 3

\* txlen = dp + val_size, plus 2 when the command byte has DATA_CRC_EN
ReadTxLen(hdr, n) ==
    ReadDp + n + (IF BitAnd(At(hdr, 1), DATA_CRC_EN) # 0 THEN 2 ELSE 0)

\* entry of ft8756_spi_read(dev, [reg], 1, val_buf, val_size): both buffers
\* allocated, the header built, the locals initialised (ret is not read
\* before the first spi_sync assigns it)
ReadEntry(reg, callerBuf) ==
    /\ devres' = devres + AllocatedByEntry
    /\ pc' = "loop"
    /\ fn' = "read"
    /\ calls' = calls + 1
    /\ val_size' = Len(callerBuf)
    /\ val_buf' = callerBuf
    /\ buf0' = callerBuf
    /\ txBuf' = ReadHeader(reg, Len(callerBuf))
    /\ dp' = ReadDp
    /\ txlen' = ReadTxLen(ReadHeader(reg, Len(callerBuf)), Len(callerBuf))
    /\ rxBuf' = Zeros(Len(callerBuf) + 9)
    /\ crc' = CRC_SEED
    /\ i' = 0
    /\ ret' = 0
    /\ rv' = 0
    /\ hist' = <<>>
    /\ accepted' = FALSE
    /\ settles' = 0

ft8756_spi_read(reg, callerBuf) ==
    \/ AllocFails("read", callerBuf)
    \/ ReadEntry(reg, callerBuf)

\* where the loop goes after an iteration that did not break
AfterIteration(k) == IF LoopContinues(k + 1) THEN "loop" ELSE "exit"

\* a bus error that goes to the next attempt without the wait
ReadBusError_NoSettle(e) ==
    /\ ret' = e
    /\ i' = i + 1
    /\ pc' = AfterIteration(i)
    /\ hist' = Append(hist, "bus")
    /\ UNCHANGED <<rxBuf, val_buf, crc, accepted, settles>>

\* spi_sync failed: log, settle, continue
ReadBusError(e) ==
    /\ ret' = e
    /\ settles' = settles + 1
    /\ i' = i + 1
    /\ pc' = AfterIteration(i)
    /\ hist' = Append(hist, "bus")
    /\ UNCHANGED <<rxBuf, val_buf, crc, accepted>>

\* the CRC check of one response passes: the accumulator, carried in c,
\* is run over the val_size payload bytes and compared with the received word
ReadCrcAfter(c, rx) == CrcAccumulate(c, rx, dp, txlen - dp - 2)

\* spi_sync succeeded and delivered rx (which really was cls)
ReadResponse(rx, cls) ==
    /\ rxBuf' = Received(rxBuf, rx)
    /\ hist' = Append(hist, cls)
    /\ IF StatusOk(rx)
       THEN /\ val_buf' = SubSeq(rx, dp + 1, dp + val_size)
            /\ IF BitAnd(At(txBuf, 1), DATA_CRC_EN) # 0
               THEN LET c == ReadCrcAfter(crc, rx)
                    IN  /\ crc' = c
                        /\ IF c # CrcRead(rx, txlen)
                           THEN \* crc error: settle, continue (ret stays 0)
                                /\ ret' = 0
                                /\ settles' = settles + 1
                                /\ i' = i + 1
                                /\ pc' = AfterIteration(i)
                                /\ UNCHANGED accepted
                           ELSE \* break
                                /\ ret' = 0
                                /\ pc' = "exit"
                                /\ accepted' = TRUE
                                /\ UNCHANGED <<settles, i>>
               ELSE /\ ret' = 0
                    /\ pc' = "exit"
                    /\ accepted' = TRUE
                    /\ UNCHANGED <<crc, settles, i>>
       ELSE /\ ret' = -EIO
            /\ settles' = settles + 1
            /\ i' = i + 1
            /\ pc' = AfterIteration(i)
            /\ UNCHANGED <<val_buf, crc, accepted>>

\* one iteration of the retry loop of ft8756_spi_read
ft8756_spi_read_loop ==
    /\ pc = "loop"
    /\ fn = "read"
    /\ LoopContinues(i)
    /\ \/ \E e \in BusErrors : ReadBusError(e)
       \/ \E r \in ReadResponseTable[<<At(txBuf, 0), val_size>>] : ReadResponse(r.rx, r.cls)
    /\ UNCHANGED <<fn, txBuf, txlen, dp, val_size, rv, calls, buf0,
                   devres>>
    /\ UNCHANGED <<idVars, touchVars, probeVars>>

\* the final usleep_range and return ret
ft8756_spi_read_return ==
    /\ pc = "exit"
    /\ fn = "read"
    /\ settles' = settles + 1
    /\ rv' = ret
    /\ pc' = "returned"
    /\ UNCHANGED <<fn, txBuf, txlen, rxBuf, dp, crc, i, ret, val_buf, val_size,
                   calls, buf0, hist, accepted, devres>>
    /\ UNCHANGED <<idVars, touchVars, probeVars>>

(***************************************************************************)
(* ft8756_spi_write                                                        *)
(***************************************************************************)
\* the frame of a write of data = [reg, v1 ..]: header with datalen = len - 1,
\* then, when datalen > 0, 3 dummy bytes (zero from kzalloc) and data[1..]
\* a frame without the three dummy bytes
WriteFrame_NoDummy(data) ==
    LET datalen == Len(data) - 1
    IN  <<At(data, 0), WRITE_CMD, (datalen \div 256) % 256, datalen % 256>>
        \o SubSeq(data, 2, Len(data))

\* txBuf[0 .. txlen - 1]: register, WRITE_CMD, datalen high and low byte,
\* and when datalen > 0 three bytes left zero and data[1 ..]
WriteFrame(data) ==
    LET datalen == Len(data) - 1
        hdr == <<At(data, 0), WRITE_CMD, (datalen \div 256) % 256, datalen % 256>>
    IN  IF datalen > 0
        THEN hdr \o <<0, 0, 0>> \o SubSeq(data, 2, Len(data))
        ELSE hdr

WriteEntry(data) ==
    /\ devres' = devres + AllocatedByEntry
    /\ pc' = "loop"
    /\ fn' = "write"
    /\ calls' = calls + 1
    /\ txBuf' = WriteFrame(data)
                 \o Zeros(Len(data) + 9 - Len(WriteFrame(data)))
    /\ txlen' = Len(WriteFrame(data))
    /\ rxBuf' = Zeros(Len(data) + 9)
    /\ i' = 0
    /\ ret' = 0
    /\ rv' = 0
    /\ hist' = <<>>
    /\ accepted' = FALSE
    /\ settles' = 0
    /\ val_buf' = <<>>
    /\ buf0' = data
    /\ val_size' = 0
    /\ dp' = 0
    /\ crc' = CRC_SEED

ft8756_spi_write(data) ==
    \/ AllocFails("write", <<>>)
    \/ WriteEntry(data)

\* spi_sync failed: log, settle, continue
WriteBusError(e) ==
    /\ ret' = e
    /\ settles' = settles + 1
    /\ i' = i + 1
    /\ pc' = AfterIteration(i)
    /\ hist' = Append(hist, "bus")
    /\ UNCHANGED <<rxBuf, accepted>>

\* a write iteration that forgets ret = -EIO on a status error
WriteResponse_KeepsRet(rx, cls) ==
    /\ rxBuf' = Received(rxBuf, rx)
    /\ hist' = Append(hist, cls)
    /\ ret' = 0
    /\ IF StatusOk(rx)
       THEN /\ pc' = "exit"
            /\ accepted' = TRUE
            /\ UNCHANGED <<settles, i>>
       ELSE /\ settles' = settles + 1
            /\ i' = i + 1
            /\ pc' = AfterIteration(i)
            /\ UNCHANGED accepted

\* spi_sync succeeded and delivered rx (which really was cls)
WriteResponse(rx, cls) ==
    /\ rxBuf' = Received(rxBuf, rx)
    /\ hist' = Append(hist, cls)
    /\ IF StatusOk(rx)
       THEN /\ ret' = 0
            /\ pc' = "exit"
            /\ accepted' = TRUE
            /\ UNCHANGED <<settles, i>>
       ELSE /\ ret' = -EIO
            /\ settles' = settles + 1
            /\ i' = i + 1
            /\ pc' = AfterIteration(i)
            /\ UNCHANGED accepted

\* one iteration of the retry loop of ft8756_spi_write
ft8756_spi_write_loop ==
    /\ pc = "loop"
    /\ fn = "write"
    /\ LoopContinues(i)
    /\ \/ \E e \in BusErrors : WriteBusError(e)
       \/ \E r \in WriteResponses(txlen) : WriteResponse(r.rx, r.cls)
    /\ UNCHANGED <<fn, txBuf, txlen, dp, crc, val_buf, val_size, rv, calls, buf0,
                   devres>>
    /\ UNCHANGED <<idVars, touchVars, probeVars>>

\* the final usleep_range and return ret
ft8756_spi_write_return ==
    /\ pc = "exit"
    /\ fn = "write"
    /\ settles' = settles + 1
    /\ rv' = ret
    /\ pc' = "returned"
    /\ UNCHANGED <<fn, txBuf, txlen, rxBuf, dp, crc, i, ret, val_buf, val_size,
                   calls, buf0, hist, accepted, devres>>
    /\ UNCHANGED <<idVars, touchVars, probeVars>>

(***************************************************************************)
(* regmap: the configuration binds .read and .write to the two functions;  *)
(* a raw read of n bytes from reg into a buffer is one ft8756_spi_read, a  *)
(* register write of val to reg is one ft8756_spi_write of [reg, val].     *)
(***************************************************************************)
regmap_raw_read(reg, callerBuf) == ft8756_spi_read(reg, callerBuf)

regmap_write(reg, val) == ft8756_spi_write(<<reg, val>>)

(***************************************************************************)
(* A regmap user issuing single transfers.                                 *)
(***************************************************************************)
CallerBufs(n) == [1..n -> StaleBytes]

CallRead ==
    /\ pc \in {"idle", "returned"}
    /\ idpc = "none"
    /\ calls < MaxCalls
    /\ \E in \in ReadInputs : \E b \in CallerBufs(in[2]) : regmap_raw_read(in[1], b)
    /\ UNCHANGED <<idVars, touchVars, probeVars>>

CallWrite ==
    /\ pc \in {"idle", "returned"}
    /\ idpc = "none"
    /\ calls < MaxCalls
    /\ \E d \in WriteInputs : ft8756_spi_write(d)
    /\ UNCHANGED <<idVars, touchVars, probeVars>>

XferInit ==
    /\ pc = "idle"
    /\ fn = "none"
    /\ txBuf = <<>>
    /\ txlen = 0
    /\ rxBuf = <<>>
    /\ dp = 0
    /\ crc = CRC_SEED
    /\ i = 0
    /\ ret = 0
    /\ val_buf = <<>>
    /\ val_size = 0
    /\ rv = 0
    /\ calls = 0
    /\ buf0 = <<>>
    /\ hist = <<>>
    /\ accepted = FALSE
    /\ settles = 0
    /\ devres = 0

IdIdle ==
    /\ idpc = "none"
    /\ buf = <<0, 0>>
    /\ chip_id = 0
    /\ id_rv = 0
    /\ little = TRUE
    /\ idlog = <<>>
    /\ variant = "none"
    /\ idtrace = <<>>

\* the interrupt not yet requested, nothing decoded
TouchIdle ==
    /\ follower = FALSE
    /\ irq_depth = 0
    /\ thread = "idle"
    /\ suspended = FALSE
    /\ panel = "none"
    /\ max_x = TOUCH_DEFAULT_MAX_WIDTH - 1
    /\ max_y = TOUCH_DEFAULT_MAX_HEIGHT - 1
    /\ point = Zeros(POINT_DATA_LEN)
    /\ report_ret = 0
    /\ events = <<>>
    /\ abs_obj = [x |-> 0, y |-> 0, p |-> 0, area |-> 0]
    /\ regmap_lock = "none"
    /\ sleep_pc = "none"

\* no input device yet
NoInput == [allocated |-> FALSE, slots |-> 0, registered |-> FALSE]

\* the input device ft8756_input_dev_config leaves when it returns 0
ReadyInput ==
    [allocated |-> TRUE, slots |-> TOUCH_MAX_FINGER_NUM, registered |-> TRUE]

\* the probe has set up the regmap and is about to identify the chip
ProbeIdentifying ==
    /\ ppc = "identify"
    /\ probe_rv = 0
    /\ input = NoInput
    /\ irq_requested = FALSE

\* the probe returned 0
ProbeDone ==
    /\ ppc = "done"
    /\ probe_rv = 0
    /\ input = ReadyInput
    /\ irq_requested = TRUE

Init == XferInit /\ IdIdle /\ TouchIdle /\ ProbeIdentifying

Next ==
    \/ CallRead
    \/ CallWrite
    \/ ft8756_spi_read_loop
    \/ ft8756_spi_read_return
    \/ ft8756_spi_write_loop
    \/ ft8756_spi_write_return

Spec == Init /\ [][Next]_vars

(***************************************************************************)
(* ft8756_check_chip_id.  Each step runs from the return of one transport  *)
(* call to the entry of the next.  The indeterminate content of buf[0] and *)
(* buf[1] (never initialised) is drawn when the byte's address is handed   *)
(* to the read; the byte order of the CPU is a choice of the build.        *)
(***************************************************************************)
\* the two bytes of a u16 in memory, and back
MemOfU16(v, le) ==
    IF le THEN <<v % 256, v \div 256>> ELSE <<v \div 256, v % 256>>

U16OfMem(m, le) ==
    IF le THEN m[1] + 256 * m[2] ELSE 256 * m[1] + m[2]

\* a conversion that was forgotten
cpu_to_be16_Identity(v, le) == v

\* cpu_to_be16: a byte swap on a little-endian CPU, nothing on a big-endian one
cpu_to_be16(v, le) ==
    IF le THEN (v % 256) * 256 + (v \div 256) ELSE v

\* chip_id = (buf[0] << 8) | buf[1], as a u16
PrimaryId(b) == BitOr((b[1] * 256) % 65536, b[2])

\* the test that sends the probe to the fallback
PrimaryMismatch(cid, r) == cid # CHIP_ID_PRIMARY \/ r # 0

\* the test after the read of FT8756_CMD_READ_ID
SecondaryMismatch(cid, r) == cid # CHIP_ID_SECONDARY \/ r # 0

\* what is kept of a transport call that returned: whether it returned 0 and
\* what it left in the caller's buffer
LogEntry(op, reg) == [op |-> op, reg |-> reg, ok |-> (rv = 0), data |-> val_buf]

\* one entry of idtrace: a call with its two arguments (b is 0 when the
\* call has one)
Act(op, a, b) == [op |-> op, a |-> a, b |-> b]

\* ft8756_reset: the line to 0, msleep(1), the line to 1, msleep(200)
ft8756_reset ==
    <<Act("gpio", 0, 0), Act("msleep", 1, 0),
      Act("gpio", 1, 0), Act("msleep", 200, 0)>>

\* entry: ft8756_reset, then the read of 0xA3 into buf[0]
ft8756_check_chip_id ==
    /\ idpc = "none"
    /\ pc = "idle"
    /\ idpc' = "read_hi"
    /\ chip_id' = 0
    /\ idtrace' = ft8756_reset \o <<Act("read", REG_CHIP_ID_H, 1)>>
    /\ \E g \in StaleBytes :
          /\ buf' = [buf EXCEPT ![1] = g]
          /\ regmap_raw_read(REG_CHIP_ID_H, <<g>>)
    /\ UNCHANGED <<id_rv, little, idlog, variant>>
    /\ UNCHANGED <<touchVars, probeVars>>

\* a probe that reads 0xA3 once more when the first read failed
ChipIdReadLow_Retry ==
    /\ idpc = "read_hi"
    /\ pc = "returned"
    /\ idlog' = Append(idlog, LogEntry("read", REG_CHIP_ID_H))
    /\ IF rv # 0 /\ idlog = <<>>
       THEN /\ idpc' = "read_hi"
            /\ idtrace' = Append(idtrace, Act("read", REG_CHIP_ID_H, 1))
            /\ \E g \in StaleBytes :
                  /\ buf' = [buf EXCEPT ![1] = g]
                  /\ regmap_raw_read(REG_CHIP_ID_H, <<g>>)
       ELSE /\ idpc' = "read_lo"
            /\ idtrace' = Append(idtrace, Act("read", REG_CHIP_ID_L, 1))
            /\ \E g \in StaleBytes :
                  /\ buf' = <<val_buf[1], g>>
                  /\ regmap_raw_read(REG_CHIP_ID_L, <<g>>)
    /\ UNCHANGED <<chip_id, id_rv, little, variant>>
    /\ UNCHANGED <<touchVars, probeVars>>

\* the read of 0xA3 returned; the read of 0x9F into buf[1] is issued
ChipIdReadLow ==
    /\ idpc = "read_hi"
    /\ pc = "returned"
    /\ idlog' = Append(idlog, LogEntry("read", REG_CHIP_ID_H))
    /\ idpc' = "read_lo"
    /\ idtrace' = Append(idtrace, Act("read", REG_CHIP_ID_L, 1))
    /\ \E g \in StaleBytes :
          /\ buf' = <<val_buf[1], g>>
          /\ regmap_raw_read(REG_CHIP_ID_L, <<g>>)
    /\ UNCHANGED <<chip_id, id_rv, little, variant>>
    /\ UNCHANGED <<touchVars, probeVars>>

\* the read of 0x9F returned: the identifier is assembled and compared;
\* return 0, or the handshake write of the fallback
ChipIdPrimary ==
    /\ idpc = "read_lo"
    /\ pc = "returned"
    /\ idlog' = Append(idlog, LogEntry("read", REG_CHIP_ID_L))
    /\ buf' = <<buf[1], val_buf[1]>>
    /\ chip_id' = PrimaryId(<<buf[1], val_buf[1]>>)
    /\ IF PrimaryMismatch(PrimaryId(<<buf[1], val_buf[1]>>), rv)
       THEN /\ idpc' = "handshake"
            /\ regmap_write(FT8756_CMD_START1, FT8756_CMD_START2)
            /\ idtrace' = Append(idtrace, Act("write", FT8756_CMD_START1,
                                              FT8756_CMD_START2))
            /\ UNCHANGED <<id_rv, variant>>
       ELSE /\ idpc' = "done"
            /\ id_rv' = 0
            /\ variant' = "primary"
            /\ UNCHANGED <<xferVars, idtrace>>
    /\ UNCHANGED little
    /\ UNCHANGED <<touchVars, probeVars>>

\* a fallback that reads the identifier without waiting
ChipIdHandshake_NoWait ==
    /\ idpc = "handshake"
    /\ pc = "returned"
    /\ idlog' = Append(idlog, LogEntry("write", FT8756_CMD_START1))
    /\ IF rv # 0
       THEN /\ idpc' = "done"
            /\ id_rv' = rv
            /\ variant' = "none"
            /\ UNCHANGED <<xferVars, idtrace>>
            /\ UNCHANGED little
       ELSE /\ idpc' = "read_id"
            /\ \E le \in BOOLEAN :
                  /\ little' = le
                  /\ regmap_raw_read(FT8756_CMD_READ_ID, MemOfU16(chip_id, le))
            /\ idtrace' = Append(idtrace, Act("read", FT8756_CMD_READ_ID, 2))
            /\ UNCHANGED <<id_rv, variant>>
    /\ UNCHANGED <<buf, chip_id>>
    /\ UNCHANGED <<touchVars, probeVars>>

\* the handshake write returned: exit with its error, or msleep(15) and the
\* 2-byte read of FT8756_CMD_READ_ID into chip_id
ChipIdHandshake ==
    /\ idpc = "handshake"
    /\ pc = "returned"
    /\ idlog' = Append(idlog, LogEntry("write", FT8756_CMD_START1))
    /\ IF rv # 0
       THEN /\ idpc' = "done"
            /\ id_rv' = rv
            /\ variant' = "none"
            /\ UNCHANGED <<xferVars, idtrace>>
            /\ UNCHANGED little
       ELSE /\ idpc' = "read_id"
            /\ \E le \in BOOLEAN :
                  /\ little' = le
                  /\ regmap_raw_read(FT8756_CMD_READ_ID, MemOfU16(chip_id, le))
            /\ idtrace' = idtrace \o <<Act("msleep", 15, 0),
                                       Act("read", FT8756_CMD_READ_ID, 2)>>
            /\ UNCHANGED <<id_rv, variant>>
    /\ UNCHANGED <<buf, chip_id>>
    /\ UNCHANGED <<touchVars, probeVars>>

\* a last step that forgets ret = -ENODEV
ChipIdSecondary_KeepsRet ==
    /\ idpc = "read_id"
    /\ pc = "returned"
    /\ idlog' = Append(idlog, LogEntry("read", FT8756_CMD_READ_ID))
    /\ chip_id' = cpu_to_be16(U16OfMem(val_buf, little), little)
    /\ idpc' = "done"
    /\ id_rv' = rv
    /\ IF SecondaryMismatch(cpu_to_be16(U16OfMem(val_buf, little), little), rv)
       THEN variant' = "none"
       ELSE variant' = "secondary"
    /\ UNCHANGED xferVars
    /\ UNCHANGED <<buf, little, idtrace>>
    /\ UNCHANGED <<touchVars, probeVars>>

\* the read of FT8756_CMD_READ_ID returned: convert, compare, return
ChipIdSecondary ==
    /\ idpc = "read_id"
    /\ pc = "returned"
    /\ idlog' = Append(idlog, LogEntry("read", FT8756_CMD_READ_ID))
    /\ chip_id' = cpu_to_be16(U16OfMem(val_buf, little), little)
    /\ idpc' = "done"
    /\ IF SecondaryMismatch(cpu_to_be16(U16OfMem(val_buf, little), little), rv)
       THEN /\ id_rv' = -ENODEV
            /\ variant' = "none"
       ELSE /\ id_rv' = rv
            /\ variant' = "secondary"
    /\ UNCHANGED xferVars
    /\ UNCHANGED <<buf, little, idtrace>>
    /\ UNCHANGED <<touchVars, probeVars>>

NextId ==
    \/ ft8756_check_chip_id
    \/ ChipIdReadLow
    \/ ChipIdPrimary
    \/ ChipIdHandshake
    \/ ChipIdSecondary
    \/ ft8756_spi_read_loop
    \/ ft8756_spi_read_return
    \/ ft8756_spi_write_loop
    \/ ft8756_spi_write_return

SpecId == Init /\ [][NextId]_vars

(***************************************************************************)
(* Properties of the transport (specification Spec).                       *)
(***************************************************************************)
ReadReturned == pc = "returned" /\ fn = "read"

WriteReturned == pc = "returned" /\ fn = "write"

LastOf(h) == h[Len(h)]

NoneValid(h) == \A k \in 1..Len(h) : h[k] # "valid"

\* the payload bytes of the response in rxBuf
RxPayload == SubSeq(rxBuf, 8, 7 + val_size)

\* C1: a read returns 0 only if the last exchange it performed succeeded on
\* the bus, had a clear status and carried the CRC of its own payload.
C1_SuccessOnlyIfLastValid ==
    (ReadReturned /\ rv = 0) => (hist # <<>> /\ LastOf(hist) = "valid")

\* C2: a read whose 3 exchanges all failed (bus error, status error or CRC
\* mismatch, in any order) returns a failure.
C2_AllFailedReturnsFailure ==
    (ReadReturned /\ Len(hist) = FT8756_MAX_RETRIES /\ NoneValid(hist)) => rv # 0

\* C3: a read that returns a failure leaves the caller's buffer as it was
\* before the call.
C3_FailureLeavesBuffer ==
    (ReadReturned /\ rv # 0) => val_buf = buf0

\* C4: the CRC check of every response starts from 0xFFFF, so a read with an
\* earlier CRC mismatch and a later valid response returns success with the
\* payload of that valid response.
C4_ValidAfterCrcMismatchAccepted ==
    (/\ ReadReturned
     /\ \E j, k \in 1..Len(hist) : j < k /\ hist[j] = "crc" /\ hist[k] = "valid")
    => (/\ rv = 0
        /\ LastOf(hist) = "valid" => val_buf = RxPayload)

\* C5: a read or write whose first 2 exchanges fail on the bus and whose 3rd
\* is fully valid returns 0.
C5_ThirdAttemptSucceeds ==
    (pc = "returned" /\ hist = <<"bus", "bus", "valid">>) => rv = 0

C5_Witness ==
    /\ ReadReturned
    /\ hist = <<"bus", "bus", "valid">>
    /\ rv = 0
    /\ val_buf = RxPayload

C7_WriteResult ==
    WriteReturned =>
        /\ rv = 0 <=> (\E k \in 1..Len(hist) : hist[k] = "valid")
        /\ (Len(hist) = FT8756_MAX_RETRIES /\ LastOf(hist) = "status") => rv = -EIO

C7_Witness ==
    /\ WriteReturned
    /\ hist = <<"bus", "status", "status">>
    /\ rv = -EIO

(***************************************************************************)
(* Properties of the identification (specification SpecId).                *)
(***************************************************************************)
IdDone == idpc = "done"

\* the 16-bit value of two bytes, the first one high
FirstHigh(d) == d[1] * 256 + d[2]

\* C8: the Primary variant is declared only if both primary reads returned
\* success and the value assembled from what they read is 0x5652.
C8_PrimaryOnlyIfBothReadsOk ==
    (IdDone /\ variant = "primary") =>
        /\ idlog[1].ok
        /\ idlog[2].ok
        /\ FirstHigh(idlog[1].data \o idlog[2].data) = CHIP_ID_PRIMARY

\* C9: in the fallback the Secondary variant is declared, with result 0,
\* exactly when the handshake write succeeded, the read of 0x90 succeeded and
\* its two bytes, first byte high, are 0x8756.
C9_SecondaryIff ==
    (IdDone /\ Len(idlog) >= 3) =>
        ((variant = "secondary" /\ id_rv = 0)
         <=> (/\ idlog[3].ok
              /\ Len(idlog) = 4
              /\ idlog[4].ok
              /\ FirstHigh(idlog[4].data) = CHIP_ID_SECONDARY))

C9_Witness ==
    /\ IdDone
    /\ variant = "secondary"
    /\ id_rv = 0
    /\ little
    /\ Len(idlog) = 4
    /\ idlog[4].data = <<135, 86>>

\* C10 as stated: every result that declares no variant is -ENODEV.
C10_FailureIsENODEV ==
    (IdDone /\ variant = "none") => id_rv = -ENODEV

\* C10 as amended: a result that declares no variant is never 0; it is
\* -ENODEV when the fallback reached the read of 0x90, and the error of the
\* handshake write when that write failed.
C10_FailureCodes ==
    (IdDone /\ variant = "none") =>
        /\ id_rv # 0
        /\ Len(idlog) \in {3, 4}
        /\ Len(idlog) = 4 => id_rv = -ENODEV
        /\ Len(idlog) = 3 => (fn = "write" /\ ~idlog[3].ok /\ id_rv = rv)

C10_Witness ==
    /\ IdDone
    /\ variant = "none"
    /\ Len(idlog) = 3
    /\ id_rv = -EIO

(***************************************************************************)
(* The report decoder, ft8756_report, and the interrupt handler around it. *)
(*                                                                         *)
(* A call made to the input device is a record [k, a, b]: input_mt_slot is *)
(* "slot" with the slot in a; input_mt_report_slot_state(MT_TOOL_FINGER,   *)
(* true) is "slot_state" with a = 1; touchscreen_report_pos is "pos" with  *)
(* x in a and y in b; the two input_report_abs are "touch_major" and       *)
(* "pressure" with the value in a; input_mt_sync_frame and input_sync are  *)
(* "mt_sync_frame" and "sync".                                             *)
(***************************************************************************)
InputCall(k, a, b) == [k |-> k, a |-> a, b |-> b]

\* the register the report is read from
REPORT_REG == 1

\* the sleep value of the power mode register
FT8756_REG_POWER_MODE_SLEEP == 3

\* the number of leading bytes the early-exit loop is bounded by
IdleCheckLen == 6

\* only 0xFF ends the frame early
IsSentinel_OnlyFF(b) == b = 255

\* the negation of (point[i] != 0xEF && point[i] != 0xFF)
IsSentinel(b) == b = 239 \/ b = 255

\* for (i = 0; i < 6; i++) { if (not a sentinel) break; goto exit; }: both
\* branches of the body leave the loop in its first iteration, so the loop
\* ends in goto exit exactly when point[0] is a sentinel
IdleExit(pt) == 0 < IdleCheckLen /\ IsSentinel(At(pt, 0))

\* input_id = point[base + 4] >> 4
InputId(pt, base) == At(pt, base + 4) \div 16

\* an identifier one past the last slot is let through
IdValid_OffByOne(id) == id <= TOUCH_MAX_FINGER_NUM

\* the negation of (input_id >= 10)
IdValid(id) == id < TOUCH_MAX_FINGER_NUM

\* point[base + 2] >> 6
EventCode(pt, base) == At(pt, base + 2) \div 64

\* every event code but 11 is taken
EventOk_AllButThree(code) == code # 3

\* (point[base + 2] >> 6) == 0x0 || (point[base + 2] >> 6) == 0x2
EventOk(code) == code = 0 \/ code = 2

\* the high byte is not masked
Coord_NoMask(hi, lo) == (hi * 256 + BitAnd(lo, 255)) % 65536

\* ((hi & 0xF) << 8) + (lo & 0xFF), stored in a u16
Coord(hi, lo) == (BitAnd(hi, 15) * 256 + BitAnd(lo, 255)) % 65536

\* only x is compared
OutOfRange_XOnly(x, y, mx, my) == x > mx

\* (obj->x > ts->prop.max_x) || (obj->y > ts->prop.max_y)
OutOfRange(x, y, mx, my) == x > mx \/ y > my

\* the raw byte is reported as it is
Pressure_Raw(raw) == raw

\* obj->p = point[base + 6]; above TOUCH_MAX_PRESSURE clamped; 0 becomes 1
Pressure(raw) ==
    LET clamped == IF raw > TOUCH_MAX_PRESSURE THEN TOUCH_MAX_PRESSURE ELSE raw
    IN  IF clamped = 0 THEN 1 ELSE clamped

\* obj->area = point[base + 7] >> 4; 0 becomes 1
Area(raw) ==
    LET a == raw \div 16
    IN  IF a = 0 THEN 1 ELSE a

\* the five calls that report one contact
ContactCalls(id, obj) ==
    << InputCall("slot", id, 0),
       InputCall("slot_state", 1, 0),
       InputCall("pos", obj.x, obj.y),
       InputCall("touch_major", obj.area, 0),
       InputCall("pressure", obj.p, 0) >>

\* entries five bytes apart
EntryBase_Stride5(idx) == 5 * idx

\* base = 6 * i
EntryBase(idx) == 6 * idx

\* the offsets from base at which an iteration reads point: point[base + 2]
\* to point[base + 7]
EntryOffsets == 2..7

\* the indexes of point the iteration for entry idx may read
IndexesRead(idx) == { EntryBase(idx) + k : k \in EntryOffsets }

\* an iteration that keeps the pressure the scratch object holds when the
\* entry carries none
DecodeEntry_StalePressure(pt, idx, obj, mx, my) ==
    LET base == EntryBase(idx)
        id == InputId(pt, base)
        x == Coord(At(pt, base + 2), At(pt, base + 3))
        y == Coord(At(pt, base + 4), At(pt, base + 5))
        placed == [obj EXCEPT !.x = x, !.y = y]
        filled == [placed EXCEPT !.p = IF At(pt, base + 6) = 0 THEN obj.p
                                       ELSE Pressure(At(pt, base + 6)),
                                 !.area = Area(At(pt, base + 7))]
    IN  IF ~IdValid(id) THEN [obj |-> obj, ev |-> <<>>]
        ELSE IF ~EventOk(EventCode(pt, base)) THEN [obj |-> obj, ev |-> <<>>]
        ELSE IF OutOfRange(x, y, mx, my) THEN [obj |-> placed, ev |-> <<>>]
        ELSE [obj |-> filled, ev |-> ContactCalls(id, filled)]

\* one iteration of the loop over the entries: the scratch object and the
\* calls it makes
DecodeEntry(pt, idx, obj, mx, my) ==
    LET base == EntryBase(idx)
        id == InputId(pt, base)
        x == Coord(At(pt, base + 2), At(pt, base + 3))
        y == Coord(At(pt, base + 4), At(pt, base + 5))
        placed == [obj EXCEPT !.x = x, !.y = y]
        filled == [placed EXCEPT !.p = Pressure(At(pt, base + 6)),
                                 !.area = Area(At(pt, base + 7))]
    IN  IF ~IdValid(id) THEN [obj |-> obj, ev |-> <<>>]
        ELSE IF ~EventOk(EventCode(pt, base)) THEN [obj |-> obj, ev |-> <<>>]
        ELSE IF OutOfRange(x, y, mx, my) THEN [obj |-> placed, ev |-> <<>>]
        ELSE [obj |-> filled, ev |-> ContactCalls(id, filled)]

\* for (i = 0; i < TOUCH_MAX_FINGER_NUM; i++)
RECURSIVE DecodeLoop(_, _, _, _, _, _)
DecodeLoop(pt, idx, obj, ev, mx, my) ==
    IF idx < TOUCH_MAX_FINGER_NUM
    THEN LET r == DecodeEntry(pt, idx, obj, mx, my)
         IN  DecodeLoop(pt, idx + 1, r.obj, ev \o r.ev, mx, my)
    ELSE [obj |-> obj, ev |-> ev]

\* input_mt_sync_frame(input); input_sync(input)
FrameEnd == << InputCall("mt_sync_frame", 0, 0), InputCall("sync", 0, 0) >>

(***************************************************************************)
(* The reports the chip may deliver: two header bytes, then ten entries of *)
(* six bytes.  Entries 0, 1 and 9 vary, entries 2..8 are unused (0xFF).    *)
(***************************************************************************)
\* event 00, x = 786, identifier 4, y = 1383, pressure 128, area 3
E_Down == <<3, 18, 69, 103, 128, 48>>
\* event 10, x = 256, identifier 1, y = 512, pressure 0, area 0
E_MoveZero == <<129, 0, 18, 0, 0, 0>>
\* event 00, x = 1079, identifier 7, y = 2399, pressure 255, area 15
E_Edge == <<4, 55, 121, 95, 255, 240>>
\* identifier 10 with event 00 and x = y = 16
E_BadId == <<0, 16, 160, 16, 16, 16>>
\* event 01 with identifier 2, x = 288, y = 48
E_Lift == <<65, 32, 32, 48, 64, 80>>
\* event 11 with identifier 3, x = 16, y = 16
E_Code3 == <<192, 16, 48, 16, 32, 32>>
\* event 00, identifier 5, x = 4095, y = 16
E_XOut == <<15, 255, 80, 16, 80, 80>>
\* event 00, identifier 6, x = 16, y = 4095
E_YOut == <<0, 16, 111, 255, 255, 240>>
E_Empty == <<255, 255, 255, 255, 255, 255>>
E_EmptyEF == <<239, 255, 239, 239, 255, 239>>

Entries == {E_Down, E_MoveZero, E_Edge, E_BadId, E_Lift, E_Code3, E_XOut,
            E_YOut, E_Empty, E_EmptyEF}

SecondEntries == {E_BadId, E_MoveZero, E_Lift, E_XOut}

LastEntries == {E_Empty, E_Edge}

\* byte 0 and byte 1 of a report that carries contacts, and of reports
\* that begin with a sentinel
ContactHeader == <<0, 1>>

SentinelHeaders == {<<255, 255>>, <<239, 255>>, <<255, 1>>}

Report(h, e0, e1, e9) ==
    h \o e0 \o e1 \o E_Empty \o E_Empty \o E_Empty \o E_Empty \o E_Empty
      \o E_Empty \o E_Empty \o e9

Reports ==
    { Report(ContactHeader, e0, e1, e9) :
        e0 \in Entries, e1 \in SecondEntries, e9 \in LastEntries }
    \cup { Report(h, e0, E_MoveZero, E_Empty) :
              h \in SentinelHeaders, e0 \in {E_Empty, E_EmptyEF, E_Down} }

\* the n bytes the chip may deliver for a read of reg
ChipReports(reg, n) ==
    IF reg = REPORT_REG /\ n = POINT_DATA_LEN THEN Reports ELSE {Zeros(n)}

\* what regmap_raw_read(ts->regmap, reg, point, n) may leave: 0 and a
\* report, or an error and either the zeroes point was initialised with or
\* the payload of an exchange that was then rejected
ReportReads(reg, n) ==
    { [ret |-> 0, point |-> r] : r \in ChipReports(reg, n) }
    \cup { [ret |-> -EIO, point |-> r] :
             r \in {Zeros(n), Report(ContactHeader, E_Down, E_MoveZero, E_Edge)} }

\* ts->prop.max_x and ts->prop.max_y as touchscreen_parse_properties may
\* leave them: the defaults, or a narrower or a shorter panel
PanelBounds == { <<TOUCH_DEFAULT_MAX_WIDTH - 1, TOUCH_DEFAULT_MAX_HEIGHT - 1>>,
                 <<785, TOUCH_DEFAULT_MAX_HEIGHT - 1>>,
                 <<TOUCH_DEFAULT_MAX_WIDTH - 1, 1382>> }

(***************************************************************************)
(* The disable depth of the interrupt.  disable_irq_nosync and disable_irq *)
(* add one; enable_irq takes one off, and at depth 0 it warns of an        *)
(* unbalanced enable and leaves the interrupt as it is.                    *)
(***************************************************************************)
\* a disable that does not nest
DisableDepth_NotNested(d) == 1

DisableDepth(d) == d + 1

EnableDepth(d) == IF d = 0 THEN 0 ELSE d - 1

\* the interrupt fires while it is requested and enabled and its thread is
\* not busy (IRQF_ONESHOT): the thread is woken
IrqFire ==
    /\ irq_requested
    /\ irq_depth = 0
    /\ thread = "idle"
    /\ thread' = "woken"
    /\ UNCHANGED <<follower, irq_depth, suspended, panel, max_x, max_y,
                   point, report_ret, events, abs_obj>>
    /\ UNCHANGED <<regmap_lock, sleep_pc>>
    /\ UNCHANGED <<xferVars, idVars, probeVars>>

\* ft8756_irq_handler up to the call of ft8756_report: disable_irq_nosync
ft8756_irq_handler ==
    /\ thread = "woken"
    /\ irq_depth' = DisableDepth(irq_depth)
    /\ thread' = "running"
    /\ UNCHANGED <<follower, suspended, panel, max_x, max_y,
                   point, report_ret, events, abs_obj>>
    /\ UNCHANGED <<regmap_lock, sleep_pc>>
    /\ UNCHANGED <<xferVars, idVars, probeVars>>

\* the lock of the regmap is taken whoever holds it
LockFree_Always(l) == TRUE

\* regmap_raw_read and regmap_write take the lock of the regmap (its
\* configuration asks for no other locking) before they call the transport
LockFree(l) == l = "none"

\* ft8756_report up to its regmap_raw_read: the lock is taken and the read
\* is in progress
ft8756_report_read ==
    /\ thread = "running"
    /\ LockFree(regmap_lock)
    /\ regmap_lock' = "irq"
    /\ thread' = "reading"
    /\ UNCHANGED <<follower, irq_depth, suspended, panel, max_x, max_y,
                   point, report_ret, events, abs_obj, sleep_pc>>
    /\ UNCHANGED <<xferVars, idVars, probeVars>>

\* ft8756_report from the return of the read: the lock is released, then
\* the early exit, the loop over the entries and the end of the frame
ft8756_report ==
    /\ thread = "reading"
    /\ regmap_lock' = "none"
    /\ \E rd \in ReportReads(REPORT_REG, POINT_DATA_LEN) :
          /\ point' = rd.point
          /\ report_ret' = rd.ret
          /\ IF rd.ret < 0 \/ IdleExit(rd.point)
             THEN /\ events' = <<>>
                  /\ UNCHANGED abs_obj
             ELSE LET r == DecodeLoop(rd.point, 0, abs_obj, <<>>, max_x, max_y)
                  IN  /\ events' = r.ev \o FrameEnd
                      /\ abs_obj' = r.obj
    /\ thread' = "reported"
    /\ UNCHANGED <<follower, irq_depth, suspended, panel, max_x, max_y>>
    /\ UNCHANGED sleep_pc
    /\ UNCHANGED <<xferVars, idVars, probeVars>>

\* a handler that returns without enable_irq when the report read failed
ft8756_irq_handler_return_KeepsDisabled ==
    /\ thread = "reported"
    /\ irq_depth' = IF report_ret < 0 THEN irq_depth
                    ELSE EnableDepth(irq_depth)
    /\ thread' = "idle"
    /\ point' = Zeros(POINT_DATA_LEN)
    /\ report_ret' = 0
    /\ events' = <<>>
    /\ UNCHANGED <<follower, suspended, panel, max_x, max_y, abs_obj>>
    /\ UNCHANGED <<regmap_lock, sleep_pc>>
    /\ UNCHANGED <<xferVars, idVars, probeVars>>

\* ft8756_irq_handler after ft8756_report: enable_irq, return IRQ_HANDLED;
\* the report buffer goes out of scope
ft8756_irq_handler_return ==
    /\ thread = "reported"
    /\ irq_depth' = EnableDepth(irq_depth)
    /\ thread' = "idle"
    /\ point' = Zeros(POINT_DATA_LEN)
    /\ report_ret' = 0
    /\ events' = <<>>
    /\ UNCHANGED <<follower, suspended, panel, max_x, max_y, abs_obj>>
    /\ UNCHANGED <<regmap_lock, sleep_pc>>
    /\ UNCHANGED <<xferVars, idVars, probeVars>>

\* ft8756_pm_suspend: return 0 for a panel follower, else
\* disable_irq_nosync and the call of ft8756_internal_pm_suspend
ft8756_pm_suspend ==
    /\ ~suspended
    /\ sleep_pc = "none"
    /\ IF follower
       THEN /\ suspended' = TRUE
            /\ UNCHANGED <<irq_depth, sleep_pc>>
       ELSE /\ irq_depth' = DisableDepth(irq_depth)
            /\ sleep_pc' = "lock"
            /\ UNCHANGED suspended
    /\ UNCHANGED <<follower, thread, panel, max_x, max_y,
                   point, report_ret, events, abs_obj>>
    /\ UNCHANGED regmap_lock
    /\ UNCHANGED <<xferVars, idVars, probeVars>>

\* ft8756_internal_pm_suspend: its regmap_write takes the lock and the
\* write of the sleep command is in progress
ft8756_internal_pm_suspend ==
    /\ sleep_pc = "lock"
    /\ LockFree(regmap_lock)
    /\ regmap_lock' = "sleep"
    /\ sleep_pc' = "write"
    /\ UNCHANGED <<follower, irq_depth, thread, suspended, panel, max_x, max_y,
                   point, report_ret, events, abs_obj>>
    /\ UNCHANGED <<xferVars, idVars, probeVars>>

\* the write returned, its result is not looked at: the lock is released,
\* ft8756_internal_pm_suspend returns 0 and so does its caller
InternalSuspendReturns ==
    /\ sleep_pc = "write"
    /\ regmap_lock' = "none"
    /\ sleep_pc' = "none"
    /\ IF follower
       THEN /\ panel' = "unprepared"
            /\ UNCHANGED suspended
       ELSE /\ suspended' = TRUE
            /\ UNCHANGED panel
    /\ UNCHANGED <<follower, irq_depth, thread, max_x, max_y,
                   point, report_ret, events, abs_obj>>

ft8756_internal_pm_suspend_return ==
    /\ InternalSuspendReturns
    /\ UNCHANGED <<xferVars, idVars, probeVars>>

\* ft8756_pm_resume: nothing for a panel follower, else enable_irq
ft8756_pm_resume ==
    /\ suspended
    /\ suspended' = FALSE
    /\ irq_depth' = IF follower THEN irq_depth ELSE EnableDepth(irq_depth)
    /\ UNCHANGED <<follower, thread, panel, max_x, max_y,
                   point, report_ret, events, abs_obj>>
    /\ UNCHANGED <<regmap_lock, sleep_pc>>
    /\ UNCHANGED <<xferVars, idVars, probeVars>>

\* panel_prepared: enable_irq.  The panel calls it when it has been
\* prepared, the first time without any panel_unpreparing before it.
panel_prepared ==
    /\ follower
    /\ panel \in {"none", "unprepared"}
    /\ panel' = "prepared"
    /\ irq_depth' = EnableDepth(irq_depth)
    /\ UNCHANGED <<follower, thread, suspended, max_x, max_y,
                   point, report_ret, events, abs_obj>>
    /\ UNCHANGED <<regmap_lock, sleep_pc>>
    /\ UNCHANGED <<xferVars, idVars, probeVars>>

\* panel_unpreparing, first half: disable_irq raises the depth, then waits
\* for the interrupt thread
panel_unpreparing ==
    /\ follower
    /\ panel = "prepared"
    /\ panel' = "unpreparing"
    /\ irq_depth' = DisableDepth(irq_depth)
    /\ UNCHANGED <<follower, thread, suspended, max_x, max_y,
                   point, report_ret, events, abs_obj>>
    /\ UNCHANGED <<regmap_lock, sleep_pc>>
    /\ UNCHANGED <<xferVars, idVars, probeVars>>

\* panel_unpreparing, second half: the thread is idle, disable_irq returns,
\* ft8756_internal_pm_suspend is called
panel_unpreparing_return ==
    /\ panel = "unpreparing"
    /\ thread = "idle"
    /\ sleep_pc = "none"
    /\ panel' = "sleep"
    /\ sleep_pc' = "lock"
    /\ UNCHANGED <<follower, irq_depth, thread, suspended, max_x, max_y,
                   point, report_ret, events, abs_obj>>
    /\ UNCHANGED regmap_lock
    /\ UNCHANGED <<xferVars, idVars, probeVars>>

\* after ft8756_spi_probe returned 0: the interrupt is requested and
\* enabled, the device follows a panel or not, the bounds are configured
InitTouch ==
    /\ XferInit
    /\ IdIdle
    /\ follower \in BOOLEAN
    /\ irq_depth = 0
    /\ thread = "idle"
    /\ suspended = FALSE
    /\ panel = "none"
    /\ \E b \in PanelBounds : max_x = b[1] /\ max_y = b[2]
    /\ point = Zeros(POINT_DATA_LEN)
    /\ report_ret = 0
    /\ events = <<>>
    /\ abs_obj = [x |-> 0, y |-> 0, p |-> 0, area |-> 0]
    /\ regmap_lock = "none"
    /\ sleep_pc = "none"
    /\ ProbeDone

NextTouch ==
    \/ IrqFire
    \/ ft8756_irq_handler
    \/ ft8756_report_read
    \/ ft8756_report
    \/ ft8756_irq_handler_return
    \/ ft8756_pm_suspend
    \/ ft8756_internal_pm_suspend
    \/ ft8756_internal_pm_suspend_return
    \/ ft8756_pm_resume
    \/ panel_prepared
    \/ panel_unpreparing
    \/ panel_unpreparing_return

SpecTouch == InitTouch /\ [][NextTouch]_vars

(***************************************************************************)
(* Properties of the report decoder and of the interrupt handler           *)
(* (specification SpecTouch).                                              *)
(***************************************************************************)
\* ft8756_report has returned and its calls to the input device are in events
Reported == thread = "reported"

\* the read of the report returned success
ReadOk == report_ret = 0

\* each of the first six bytes of the report is 0xEF or 0xFF
IdleReport == \A k \in 0..5 : At(point, k) \in {239, 255}

\* the calls of events that are of kind k
CallsOfKind(k) == SelectSeq(events, LAMBDA c : c.k = k)

\* C11: a report whose first six bytes are each 0xEF or 0xFF makes
\* ft8756_report emit nothing: no call for any slot and no frame-complete
\* marker
C11_IdleFrameEmitsNothing ==
    (Reported /\ ReadOk /\ IdleReport) => events = <<>>

\* an idle report mixing both sentinels has been handled
C11_Witness ==
    /\ Reported /\ ReadOk /\ IdleReport
    /\ \E j, k \in 0..5 : At(point, j) = 239 /\ At(point, k) = 255
    /\ events = <<>>

\* C12: the fast path is taken only when every one of the first six bytes
\* is a sentinel: a report that was read and has a byte other than 0xEF and
\* 0xFF among its first six is decoded entry by entry and its frame is
\* completed
C12_FastPathOnlyWhenAllSentinels ==
    (Reported /\ ReadOk /\ ~IdleReport) => CallsOfKind("sync") # <<>>

\* the calls of events that report contacts, and the samples they make up:
\* a sample is a slot selection followed by the slot state, the position,
\* the area and the pressure
ContactPart == SelectSeq(events, LAMBDA c : c.k \notin {"mt_sync_frame", "sync"})

NSamples == Len(ContactPart) \div 5

Group(n) == SubSeq(ContactPart, 5 * n - 4, 5 * n)

WholeSamples ==
    /\ Len(ContactPart) = 5 * NSamples
    /\ \A n \in 1..NSamples :
          [j \in 1..5 |-> Group(n)[j].k]
              = <<"slot", "slot_state", "pos", "touch_major", "pressure">>

Sample(n) ==
    LET g == Group(n)
    IN  [slot |-> g[1].a, x |-> g[3].a, y |-> g[3].b, pressure |-> g[5].a,
         area |-> g[4].a, down |-> (g[2].a = 1)]

Samples == [n \in 1..NSamples |-> Sample(n)]

\* the fields of entry e of the report as the specification gives them
EntryId(e) == At(point, 6 * e + 4) \div 16

EntryCode(e) == At(point, 6 * e + 2) \div 64

EntryX(e) == BitOr(BitAnd(At(point, 6 * e + 2), 15) * 256, At(point, 6 * e + 3))

EntryY(e) == BitOr(BitAnd(At(point, 6 * e + 4), 15) * 256, At(point, 6 * e + 5))

EntryRawPressure(e) == At(point, 6 * e + 6)

EntryRawArea(e) == At(point, 6 * e + 7) \div 16

OneForZero(v) == IF v = 0 THEN 1 ELSE v

EntryPasses(e) ==
    /\ EntryId(e) < 10
    /\ EntryCode(e) \in {0, 2}
    /\ EntryX(e) <= max_x
    /\ EntryY(e) <= max_y

ExpectedSample(e) ==
    [slot |-> EntryId(e), x |-> EntryX(e), y |-> EntryY(e),
     pressure |-> OneForZero(EntryRawPressure(e)),
     area |-> OneForZero(EntryRawArea(e)), down |-> TRUE]

RECURSIVE ExpectedFrom(_)
ExpectedFrom(e) ==
    IF e > 9 THEN <<>>
    ELSE (IF EntryPasses(e) THEN <<ExpectedSample(e)>> ELSE <<>>)
         \o ExpectedFrom(e + 1)

\* ft8756_report went through the loop over the entries and completed the
\* frame
Decoded == Reported /\ CallsOfKind("sync") # <<>>

\* C13: every contact emitted targets a slot in 0..9, and a slot is only
\* ever selected for an entry whose identifier is below 10: an entry whose
\* identifier is 10 or more selects no slot and emits nothing
C13_SlotBelowTen ==
    Reported =>
        /\ WholeSamples
        /\ \A n \in 1..NSamples :
              /\ Samples[n].slot \in 0..9
              /\ \E e \in 0..9 : EntryId(e) = Samples[n].slot
        /\ NSamples <= Cardinality({e \in 0..9 : EntryId(e) < 10})

\* a frame holding an entry with identifier 10 between two contacts was
\* decoded and the two contacts alone were emitted
C13_Witness ==
    /\ Decoded
    /\ EntryId(1) = 10 /\ EntryCode(1) = 0
    /\ EntryX(1) <= max_x /\ EntryY(1) <= max_y
    /\ NSamples = 2
    /\ Samples[1].slot = EntryId(0) /\ Samples[2].slot = EntryId(9)

\* C14: an entry produces a contact sample only if the top two bits of
\* its byte 2 are 00 or 10: every slot selected is the identifier of an
\* entry with such an event code, and no more samples are emitted than
\* there are such entries, whatever the identifiers and coordinates of the
\* entries with event code 01 or 11
C14_OnlyDownOrMove ==
    Reported =>
        /\ WholeSamples
        /\ \A n \in 1..NSamples :
              \E e \in 0..9 : /\ EntryId(e) = Samples[n].slot
                              /\ EntryCode(e) \in {0, 2}
        /\ NSamples <= Cardinality({e \in 0..9 : EntryCode(e) \in {0, 2}})

\* a frame whose entry 0 has event code 01, a valid identifier and
\* coordinates in range was decoded, and nothing was emitted for it while
\* the later contacts were
C14_Witness ==
    /\ Decoded
    /\ EntryCode(0) = 1 /\ EntryId(0) < 10
    /\ EntryX(0) <= max_x /\ EntryY(0) <= max_y
    /\ NSamples = 2
    /\ \A n \in 1..NSamples : Samples[n].slot # EntryId(0)

C16_PressureAreaRange ==
    Reported =>
        /\ WholeSamples
        /\ \A n \in 1..NSamples :
              /\ Samples[n].pressure \in 1..255
              /\ Samples[n].area \in 1..15
              /\ \E e \in 0..9 :
                    /\ EntryId(e) = Samples[n].slot
                    /\ Samples[n].pressure
                         = (IF EntryRawPressure(e) = 0 THEN 1 ELSE EntryRawPressure(e))
                    /\ Samples[n].area
                         = (IF EntryRawArea(e) = 0 THEN 1 ELSE EntryRawArea(e))

\* a contact with raw pressure 0 and raw area 0 and a contact with raw
\* pressure 255 and raw area 15 were emitted in one frame
C16_Witness ==
    /\ Decoded
    /\ \E n \in 1..NSamples :
          /\ Samples[n].slot = EntryId(0)
          /\ EntryRawPressure(0) = 0 /\ EntryRawArea(0) = 0
          /\ Samples[n].pressure = 1 /\ Samples[n].area = 1
    /\ \E n \in 1..NSamples :
          /\ Samples[n].slot = EntryId(9)
          /\ EntryRawPressure(9) = 255 /\ EntryRawArea(9) = 15
          /\ Samples[n].pressure = 255 /\ Samples[n].area = 15

C18_MalformedEntryNeverAborts ==
    (Reported /\ ReadOk /\ ~IdleReport) =>
        (WholeSamples /\ Samples = ExpectedFrom(0))

\* what holds of the frames that reach the loop over the entries: the
\* samples are the decode results in index order
DecodedFramesInOrder ==
    Decoded => (WholeSamples /\ Samples = ExpectedFrom(0))

\* C19: each call that read a report that is not idle emits exactly one
\* frame-complete marker, and emits it after the emissions of all ten
\* entries, also when every entry was skipped
C19_OneMarkerAtEnd ==
    (Reported /\ ReadOk /\ ~IdleReport) =>
        /\ Len(CallsOfKind("sync")) = 1
        /\ events[Len(events)].k = "sync"

\* what holds of the frames that reach the loop over the entries: the one
\* marker is the last call
DecodedFramesOneMarker ==
    Decoded =>
        /\ Len(CallsOfKind("sync")) = 1
        /\ Len(CallsOfKind("mt_sync_frame")) = 1
        /\ events[Len(events)].k = "sync"
        /\ events[Len(events) - 1].k = "mt_sync_frame"

\* C20: the interrupt is disabled for the whole of a decode-and-dispatch
\* cycle: while the handler is between its disable_irq_nosync and its
\* enable_irq, on whatever path ft8756_report takes, the disable depth is
\* at least 1
C20_DisabledDuringCycle ==
    thread \in {"running", "reading", "reported"} => irq_depth >= 1

\* what holds of a device that follows no panel: the handler's own disable
\* is outstanding for the whole cycle
NonFollowerDisabledDuringCycle ==
    (~follower /\ thread \in {"running", "reading", "reported"})
        => irq_depth >= 1

\* a transport call is in progress for the report read, for the sleep
\* command
ReportReadInFlight == thread = "reading"

SleepWriteInFlight == sleep_pc = "write"

WireWrite(data) ==
    LET n == Len(data) - 1
    IN  <<data[1], 0, (n \div 256) % 256, n % 256>>
        \o (IF n > 0 THEN <<0, 0, 0>> \o Tail(data) ELSE <<>>)

\* the bytes handed to the bus: the first txlen bytes of txBuf
Transmitted == SubSeq(txBuf, 1, txlen)

\* C22: a write of data = [reg, v1 ..] transmits [data[0], 0x00,
\* hi(len - 1), lo(len - 1)] and, when len - 1 > 0, three zero bytes and
\* data[1 ..], len + 6 bytes in all; a write of the register alone
\* transmits 4 bytes with a length field of 0; nothing follows the data
C22_WriteFrame ==
    (fn = "write" /\ txlen > 0) =>
        /\ Transmitted = WireWrite(buf0)
        /\ txlen = (IF Len(buf0) = 1 THEN 4 ELSE Len(buf0) + 6)
        /\ Len(buf0) = 1 => (txBuf[3] = 0 /\ txBuf[4] = 0)

C22_Witness ==
    /\ fn = "write"
    /\ buf0 = <<173, 1, 2>>
    /\ txlen = 9
    /\ hist # <<>>

\* the register and the size of the read that a step of the probe issued
ProbeReads == {"read_hi", "read_lo", "read_id"}

ProbeReg == [read_hi |-> 163, read_lo |-> 159, read_id |-> 144]

ProbeSize == [read_hi |-> 1, read_lo |-> 1, read_id |-> 2]

\* C23: a read of val_size bytes from register reg sends the header
\* [reg, 0xA0, hi(val_size), lo(val_size)], takes its payload at offset 7
\* of the response and exchanges exactly 4 + 3 + val_size + 2 bytes
C23_ReadFrame ==
    (idpc \in ProbeReads /\ fn = "read" /\ txlen > 0) =>
        /\ SubSeq(txBuf, 1, 4) = <<ProbeReg[idpc], 160,
                                   ProbeSize[idpc] \div 256,
                                   ProbeSize[idpc] % 256>>
        /\ BitOr(128, 32) = 160
        /\ dp = 7
        /\ txlen = 4 + 3 + ProbeSize[idpc] + 2
        /\ val_size = ProbeSize[idpc]

C23_Witness ==
    /\ idpc = "read_id"
    /\ fn = "read"
    /\ txlen = 11
    /\ accepted
    /\ val_buf = SubSeq(rxBuf, 8, 9)

\* C24: in every read and every write both the transmit buffer and the
\* receive buffer handed to spi_sync hold at least xfer.len bytes
C24_BuffersCoverExchange ==
    (pc \in {"loop", "returned"} /\ txlen > 0) =>
        /\ Len(txBuf) >= txlen
        /\ Len(rxBuf) >= txlen

\* the write side alone: both buffers are allocated with len + 9 bytes
C24_WriteBuffersCover ==
    (fn = "write" /\ txlen > 0) =>
        /\ Len(txBuf) = Len(buf0) + 9
        /\ Len(rxBuf) = Len(buf0) + 9
        /\ Len(buf0) + 9 >= txlen

\* the receive buffer of a read is allocated with val_size + 9 bytes
C24_ReadRxCovers ==
    (fn = "read" /\ txlen > 0) => Len(rxBuf) = val_size + 9 /\ Len(rxBuf) >= txlen

(***************************************************************************)
(* The sizes the transport is handed.  The probe sets max_raw_read and     *)
(* max_raw_write to spi_max_transfer_size() - 9; regmap hands the bus no   *)
(* raw transfer of more value bytes than that.                             *)
(***************************************************************************)
\* what spi_max_transfer_size() returns: a limit of the controller, or the
\* largest value when the controller has none
SpiMaxTransferSizes == {64, 4096, 65544, 2147483647}

\* regmap_config->max_raw_read and ->max_raw_write
MaxRaw(max_size) == max_size - 9

\* the value sizes tried
FrameSizes == (1..48) \cup {255, 256, 257, 4087, 4088, 65535, 65536, 65537}

\* a raw read of n bytes that regmap lets through
BulkRead ==
    /\ pc \in {"idle", "returned"}
    /\ idpc = "none"
    /\ calls < MaxCalls
    /\ \E ms \in SpiMaxTransferSizes : \E n \in FrameSizes :
          /\ n <= MaxRaw(ms)
          /\ ft8756_spi_read(REPORT_REG, Zeros(n))
    /\ UNCHANGED <<idVars, touchVars, probeVars>>

\* a raw write of n value bytes: regmap puts the register in front
BulkWrite ==
    /\ pc \in {"idle", "returned"}
    /\ idpc = "none"
    /\ calls < MaxCalls
    /\ \E ms \in SpiMaxTransferSizes : \E n \in FrameSizes :
          /\ n <= MaxRaw(ms)
          /\ ft8756_spi_write(<<REPORT_REG>> \o [k \in 1..n |-> 165])
    /\ UNCHANGED <<idVars, touchVars, probeVars>>

NextFrame ==
    \/ BulkRead
    \/ BulkWrite

SpecFrame == Init /\ [][NextFrame]_vars

\* the 16-bit length field of the frame in txBuf
LengthField == txBuf[3] * 256 + txBuf[4]

\* the payload bytes the frame carries: the placeholders of a read, the
\* bytes behind the register of a write
PayloadCarried == IF fn = "read" THEN txlen - 9 ELSE Len(buf0) - 1

\* C25: for every size the transport accepts, the length field in header
\* bytes 2-3 equals the number of payload bytes the frame carries
C25_LengthFieldMatches ==
    (pc = "loop" /\ txlen > 0) => LengthField = PayloadCarried

\* below 2^16 the field is the size
C25_LengthFieldBelow64K ==
    (pc = "loop" /\ txlen > 0 /\ PayloadCarried < 65536) =>
        LengthField = PayloadCarried

\* from 2^16 on the field is the size modulo 2^16
C25_LengthFieldTruncated ==
    (pc = "loop" /\ txlen > 0) => LengthField = PayloadCarried % 65536

(***************************************************************************)
(* The CRC of a read                                                       *)
(***************************************************************************)
\* CRC-16 told bit by bit: each message bit, least significant first, is
\* compared with the low bit of the register; the register moves right by
\* one and takes the polynomial 0x8408 when the two bits differ
RefCrcBit(c, b) ==
    IF (c % 2) # b THEN BitXor(c \div 2, 33800) ELSE c \div 2

RECURSIVE RefCrcBits(_, _, _)
RefCrcBits(c, byte, k) ==
    IF k = 0 THEN c
    ELSE RefCrcBits(RefCrcBit(c, byte % 2), byte \div 2, k - 1)

RECURSIVE RefCrc16(_, _)
RefCrc16(c, bytes) ==
    IF bytes = <<>> THEN c
    ELSE RefCrc16(RefCrcBits(c, Head(bytes), 8), Tail(bytes))

\* the first exchange of a read went through the bus
FirstAttempt == fn = "read" /\ Len(hist) = 1 /\ hist[1] # "bus"

\* neither bit 0x80 nor bit 0x20 of the status byte rx[3] is set
StatusClear == (rxBuf[4] \div 128) % 2 = 0 /\ (rxBuf[4] \div 32) % 2 = 0

\* (rx[L - 1] << 8) | rx[L - 2] with L the exchange length
RxCrcWord == rxBuf[txlen] * 256 + rxBuf[txlen - 1]

\* C26: on the first attempt of a read, with bus success and clear status,
\* the response is accepted exactly when the CRC-16 (seed 0xFFFF) over
\* rx[7 .. 7 + val_size - 1] equals (rx[L-1] << 8) | rx[L-2]; an accepted
\* response delivers exactly those bytes, and an uncorrupted response is
\* accepted
C26_FirstAttemptCrc ==
    /\ (FirstAttempt /\ StatusClear) =>
          /\ txlen = val_size + 9
          /\ accepted <=> (RefCrc16(65535, RxPayload) = RxCrcWord)
          /\ accepted => (val_buf = RxPayload /\ ret = 0)
    /\ (FirstAttempt /\ hist[1] = "valid") => (accepted /\ val_buf = RxPayload)

C26_Witness ==
    /\ FirstAttempt
    /\ StatusClear
    /\ accepted
    /\ val_size = 2
    /\ val_buf = RxPayload
    /\ val_buf # buf0

\* a first response with clear status and a wrong CRC word is not accepted
C26_RejectWitness ==
    /\ FirstAttempt
    /\ StatusClear
    /\ ~accepted
    /\ RefCrc16(65535, RxPayload) # RxCrcWord

(***************************************************************************)
(* One 2-byte read whose responses are an identifier, payloads that differ *)
(* from it in one bit, and one unrelated payload.                          *)
(***************************************************************************)
\* byte b with bit k inverted
FlipBit(b, k) ==
    IF (b \div (2 ^ k)) % 2 = 1 THEN b - 2 ^ k ELSE b + 2 ^ k

\* payload d with bit k of byte j (from 1) inverted
FlipPayloadBit(d, j, k) == [d EXCEPT ![j] = FlipBit(d[j], k)]

\* the payloads at distance one from d
OneBitOff(d) == { FlipPayloadBit(d, j, k) : j \in 1..Len(d), k \in 0..7 }

\* the identifier the chip holds at FT8756_CMD_READ_ID
CrcIdPayload == <<135, 86>>

\* the payloads the line may deliver
CrcPayloads ==
    {CrcIdPayload, <<207, 4>>}
    \cup { FlipPayloadBit(CrcIdPayload, j, k) : j \in 1..2, k \in {0, 7} }

\* each payload with the CRC word of the identifier or with a word that
\* belongs to no payload of the set
CrcResponses ==
    { [rx |-> ReadRx(0, d, w), cls |-> ReadClass(0, d, w)]
      : d \in CrcPayloads, w \in {GoodCrc(CrcIdPayload), 0} }

CrcCallRead ==
    /\ pc = "idle"
    /\ idpc = "none"
    /\ regmap_raw_read(FT8756_CMD_READ_ID, Zeros(2))
    /\ UNCHANGED <<idVars, touchVars, probeVars>>

CrcReadLoop ==
    /\ pc = "loop"
    /\ fn = "read"
    /\ LoopContinues(i)
    /\ \/ \E e \in BusErrors : ReadBusError(e)
       \/ \E r \in CrcResponses : ReadResponse(r.rx, r.cls)
    /\ UNCHANGED <<fn, txBuf, txlen, dp, val_size, rv, calls, buf0,
                   devres>>
    /\ UNCHANGED <<idVars, touchVars, probeVars>>

NextCrc ==
    \/ CrcCallRead
    \/ CrcReadLoop
    \/ ft8756_spi_read_return

SpecCrc == Init /\ [][NextCrc]_vars

\* the response of the last exchange carries the CRC word of a payload
\* from which its own payload differs in exactly one bit
OneBitCorrupted ==
    /\ fn = "read"
    /\ hist # <<>>
    /\ LastOf(hist) # "bus"
    /\ StatusClear
    /\ \E q \in OneBitOff(RxPayload) : RefCrc16(65535, q) = RxCrcWord

\* C27: a response that differs from a valid one in exactly one payload
\* bit is rejected as a CRC mismatch on that attempt
C27_OneBitFlipRejected == OneBitCorrupted => ~accepted

\* on the first attempt it is
C27_FirstAttemptFlipRejected ==
    (OneBitCorrupted /\ Len(hist) = 1) => (~accepted /\ ret = 0 /\ settles = 1)

\* inverting one payload bit changes the CRC computed from any accumulator
C27_FlipChangesCrc ==
    (fn = "read" /\ hist # <<>> /\ LastOf(hist) # "bus") =>
        \A q \in OneBitOff(RxPayload) : \A c \in {65535, crc} :
            RefCrc16(c, q) # RefCrc16(c, RxPayload)

(***************************************************************************)
(* The settle waits of a call (usleep_range(CS_HIGH_DELAY, ...))           *)
(***************************************************************************)
\* the attempts of the current call that were not accepted
FailedAttempts == Len(hist) - (IF accepted THEN 1 ELSE 0)

C28_WriteWitness ==
    /\ pc = "returned"
    /\ fn = "write"
    /\ Len(hist) = 3
    /\ ~accepted
    /\ settles = 4

(***************************************************************************)
(* The order of what ft8756_check_chip_id does (specification SpecId)      *)
(***************************************************************************)
\* the reset sequence: line low, at least 1 ms, line high, at least 200 ms
ResetOrder ==
    <<[op |-> "gpio", a |-> 0, b |-> 0], [op |-> "msleep", a |-> 1, b |-> 0],
      [op |-> "gpio", a |-> 1, b |-> 0], [op |-> "msleep", a |-> 200, b |-> 0]>>

\* what follows it: the primary reads, the handshake write, the wait of at
\* least 15 ms and the 2-byte read of 0x90
ProbeOrder ==
    <<[op |-> "read", a |-> 163, b |-> 1], [op |-> "read", a |-> 159, b |-> 1],
      [op |-> "write", a |-> 85, b |-> 170], [op |-> "msleep", a |-> 15, b |-> 0],
      [op |-> "read", a |-> 144, b |-> 2]>>

IsPrefix(s, t) == Len(s) <= Len(t) /\ s = SubSeq(t, 1, Len(s))

\* the transport calls among the entries of a trace
BusCalls(t) == SelectSeq(t, LAMBDA e : e.op \in {"read", "write"})

\* C29: what ft8756_check_chip_id does is always a prefix of: reset line
\* low, wait, reset line high, wait, read 0xA3, read 0x9F, write 0x55 0xAA,
\* wait 15 ms, read 2 bytes of 0x90; no bus exchange happens before the
\* reset sequence is complete, every transport call made is the last one
\* of the trace, and the read of 0x90 comes only behind the handshake write
\* and the wait
C29_ProbeOrder ==
    /\ IsPrefix(idtrace, ResetOrder \o ProbeOrder)
    /\ (calls > 0 \/ hist # <<>>) => IsPrefix(ResetOrder, idtrace)
    /\ calls = Len(BusCalls(idtrace))
    /\ (idpc \in {"read_hi", "read_lo", "handshake", "read_id"} /\ txlen > 0) =>
          /\ txBuf[1] = LastOf(idtrace).a
          /\ fn = LastOf(idtrace).op
    /\ \A k \in 1..Len(idtrace) :
          (idtrace[k].op = "read" /\ idtrace[k].a = 144) =>
              /\ k > 2
              /\ idtrace[k - 2] = [op |-> "write", a |-> 85, b |-> 170]
              /\ idtrace[k - 1] = [op |-> "msleep", a |-> 15, b |-> 0]
              /\ idlog[3].op = "write" /\ idlog[3].ok

C29_Witness ==
    /\ idpc = "done"
    /\ variant = "secondary"
    /\ idtrace = ResetOrder \o ProbeOrder
    /\ calls = 4

\* the transport calls of the trace that name register r
CallsOf(o, r) ==
    Len(SelectSeq(idtrace, LAMBDA e : e.op = o /\ e.a = r))

\* C30: one call of ft8756_check_chip_id issues at most 2 primary reads (one
\* of 0xA3, one of 0x9F), at most 1 handshake write and at most 1 read of
\* 0x90, each transport call once and none again; when Primary is declared
\* no write was issued at all
C30_NoRetry ==
    /\ calls <= 4
    /\ CallsOf("read", 163) <= 1
    /\ CallsOf("read", 159) <= 1
    /\ CallsOf("write", 85) <= 1
    /\ CallsOf("read", 144) <= 1
    /\ CallsOf("read", 163) + CallsOf("read", 159) + CallsOf("write", 85)
           + CallsOf("read", 144) = calls
    /\ Len(idlog) <= calls
    /\ variant = "primary" =>
          /\ calls = 2
          /\ CallsOf("write", 85) = 0
          /\ \A k \in 1..Len(idlog) : idlog[k].op = "read"
          /\ fn = "read"

C30_Witness ==
    /\ idpc = "done"
    /\ variant = "primary"
    /\ calls = 2
    /\ Len(idtrace) = 6

\* a probe whose transport calls all failed has still made each only once
C30_FailedWitness ==
    /\ idpc = "done"
    /\ variant = "none"
    /\ calls = 4
    /\ \A k \in {1, 2, 4} : ~idlog[k].ok

(***************************************************************************)
(* The scratch object of the decoder (specification SpecTouch)             *)
(***************************************************************************)
\* contents ts->abs_obj may have when ft8756_report is entered: as probe
\* left it, as a reported contact left it, as an entry that was skipped
\* after x and y were written left it
ScratchObjects ==
    { [x |-> 0, y |-> 0, p |-> 0, area |-> 0],
      [x |-> 786, y |-> 1383, p |-> 128, area |-> 3],
      [x |-> 4095, y |-> 16, p |-> 255, area |-> 15] }

\* what ft8756_report emits for the report in point when it finds scratch
\* object o
EmissionsWith(o) ==
    IF report_ret < 0 \/ IdleExit(point) THEN <<>>
    ELSE DecodeLoop(point, 0, o, <<>>, max_x, max_y).ev \o FrameEnd

\* C31: what a call of ft8756_report emits depends only on the report and
\* on max_x and max_y: the call that was made, whatever ts->abs_obj held
\* when it began, emitted what a call with the same report and bounds and
\* any other content of ts->abs_obj emits
C31_ScratchIndependent ==
    Reported => \A o \in ScratchObjects : EmissionsWith(o) = events

\* a call that emitted a contact with pressure and area taken as 1 and
\* skipped a later entry after writing its x and y
C31_Witness ==
    /\ Decoded
    /\ NSamples >= 1
    /\ \E n \in 1..NSamples : Samples[n].pressure = 1
    /\ abs_obj.x > max_x
    /\ \E o \in ScratchObjects : o # abs_obj /\ EmissionsWith(o) = events

(***************************************************************************)
(* A report read that fails                                                *)
(***************************************************************************)
\* the depth enable_irq leaves
AfterEnable(d) == IF d > 0 THEN d - 1 ELSE 0

\* C32: when the read of the report returns a failure ft8756_report makes
\* no call on the input device (no contact, no frame-complete marker, no
\* slot touched) and does not touch the scratch object, and the handler
\* still calls enable_irq before it returns
C32_FailedReadEmitsNothing ==
    [][ /\ (thread = "reading" /\ thread' = "reported" /\ report_ret' < 0) =>
              (events' = <<>> /\ abs_obj' = abs_obj)
        /\ (thread = "reported" /\ report_ret < 0) => events = <<>>
        /\ (thread = "reported" /\ report_ret < 0 /\ thread' # "reported") =>
              (thread' = "idle" /\ irq_depth' = AfterEnable(irq_depth))
      ]_vars

\* a failed read left the bytes of a rejected exchange in point, and
\* nothing was emitted for them
C32_Witness ==
    /\ Reported
    /\ report_ret < 0
    /\ point # Zeros(62)
    /\ events = <<>>
    /\ irq_depth >= 1

(***************************************************************************)
(* The bytes of the report the decoder reads                               *)
(***************************************************************************)
\* C33: every index ft8756_report reads from the report buffer for its 10
\* entries lies inside the buffer (0..61, the largest being 6*9+7 = 61),
\* and the ranges read for two different entries, [6i+2 .. 6i+7], share no
\* index
C33_IndexesInsideAndDisjoint ==
    /\ Len(point) = 62
    /\ \A e \in 0..9 :
          /\ IndexesRead(e) = (6 * e + 2)..(6 * e + 7)
          /\ IndexesRead(e) \subseteq 0..(Len(point) - 1)
    /\ \A e, f \in 0..9 : e # f => IndexesRead(e) \cap IndexesRead(f) = {}
    /\ 61 \in IndexesRead(9)
    /\ \A e \in 0..9 : \A k \in IndexesRead(e) : k <= 61
    /\ Decoded => (WholeSamples /\ Samples = ExpectedFrom(0))

\* the last entry was decoded: its area comes from point[61], and the
\* entry before it, whose bytes end at point[55], was skipped
C33_Witness ==
    /\ Decoded
    /\ EntryPasses(9)
    /\ Samples[NSamples] = ExpectedSample(9)
    /\ At(point, 61) = 240
    /\ Samples[NSamples].area = 15
    /\ ~EntryPasses(8)

(***************************************************************************)
(* The balance of enable_irq and disable_irq                               *)
(***************************************************************************)
\* a step that calls enable_irq
EnableStep ==
    \/ ft8756_irq_handler_return
    \/ (ft8756_pm_resume /\ ~follower)
    \/ panel_prepared

\* C34: enable_irq is only ever called when a disable is outstanding, so
\* the disable depth never has to go below zero
C34_EnableBalanced == [][EnableStep => irq_depth >= 1]_vars

\* what holds of a device that follows no panel: every enable_irq has its
\* disable
NonFollowerEnableBalanced ==
    [][(EnableStep /\ ~follower) => irq_depth >= 1]_vars

(***************************************************************************)
(* Suspend and resume of a device that follows no panel                    *)
(***************************************************************************)
\* the handler's own disable_irq_nosync is outstanding
HandlerHolds == thread \in {"running", "reading", "reported"}

\* the disable_irq_nosync of ft8756_pm_suspend is outstanding
SuspendHolds == suspended \/ sleep_pc # "none"

\* between the return of ft8756_pm_suspend and ft8756_pm_resume
Asleep == ~follower /\ suspended

C35_AfterHandlerWitness ==
    /\ Asleep
    /\ thread = "idle"
    /\ irq_depth = 1

\* a handler whose interrupt was taken before the suspend may begin its
\* work after the suspend returned
C35_EarlierInterruptRuns ==
    /\ Asleep
    /\ thread = "woken"

(***************************************************************************)
(* ft8756_spi_probe.  The steps before the identification (allocations,    *)
(* spi_setup, the regmap, the GPIOs, the regulators) either all succeed or *)
(* end the probe with an error; whether the device follows a panel is read *)
(* from the device tree and is drawn where the model first needs it.       *)
(***************************************************************************)
\* the errors a step of the probe may return
ProbeErrors == {-ENOMEM} \cup BusErrors

\* up to skip_regulators: return an error, or go on to identify the chip
ft8756_spi_probe ==
    /\ ppc = "start"
    /\ \/ /\ ppc' = "identify"
          /\ UNCHANGED probe_rv
       \/ /\ ppc' = "failed"
          /\ \E e \in ProbeErrors : probe_rv' = e
    /\ UNCHANGED <<input, irq_requested>>
    /\ UNCHANGED <<xferVars, idVars, touchVars>>

\* ft8756_check_chip_id, called by the probe, and its transport calls
ProbeIdentify ==
    /\ ppc = "identify"
    /\ NextId

\* a probe that goes on whatever the identification returned
ProbeIdentified_IgnoresResult ==
    /\ ppc = "identify"
    /\ idpc = "done"
    /\ ppc' = "config"
    /\ UNCHANGED <<probe_rv, input, irq_requested>>
    /\ UNCHANGED <<xferVars, idVars, touchVars>>

\* ret = ft8756_check_chip_id(ts); if (ret) return ret;
ProbeIdentified ==
    /\ ppc = "identify"
    /\ idpc = "done"
    /\ IF id_rv # 0
       THEN /\ ppc' = "failed"
            /\ probe_rv' = id_rv
       ELSE /\ ppc' = "config"
            /\ UNCHANGED probe_rv
    /\ UNCHANGED <<input, irq_requested>>
    /\ UNCHANGED <<xferVars, idVars, touchVars>>

\* the input device after each of the places ft8756_input_dev_config may
\* return from: the allocation of the device failed; the allocation of
\* phys or input_mt_init_slots failed; input_register_device failed
InputAllocated == [allocated |-> TRUE, slots |-> 0, registered |-> FALSE]

InputWithSlots ==
    [allocated |-> TRUE, slots |-> TOUCH_MAX_FINGER_NUM, registered |-> FALSE]

\* ret = ft8756_input_dev_config(ts); if (ret) return ret;
ft8756_input_dev_config ==
    /\ ppc = "config"
    /\ \/ /\ \E in \in {NoInput, InputAllocated, InputWithSlots} : input' = in
          /\ ppc' = "failed"
          /\ \E e \in ProbeErrors : probe_rv' = e
          /\ UNCHANGED <<max_x, max_y>>
       \/ /\ input' = ReadyInput
          /\ ppc' = "request"
          /\ \E b \in PanelBounds : max_x' = b[1] /\ max_y' = b[2]
          /\ UNCHANGED probe_rv
    /\ UNCHANGED irq_requested
    /\ UNCHANGED <<follower, irq_depth, thread, suspended, panel,
                   point, report_ret, events, abs_obj, regmap_lock, sleep_pc>>
    /\ UNCHANGED <<xferVars, idVars>>

\* devm_request_threaded_irq, then the panel follower, return 0
ProbeRequestIrq ==
    /\ ppc = "request"
    /\ \/ /\ ppc' = "failed"
          /\ \E e \in ProbeErrors : probe_rv' = e
          /\ UNCHANGED <<irq_requested, irq_depth, follower>>
       \/ /\ ppc' = "done"
          /\ probe_rv' = 0
          /\ irq_requested' = TRUE
          /\ irq_depth' = 0
          /\ follower' \in BOOLEAN
    /\ UNCHANGED input
    /\ UNCHANGED <<thread, suspended, panel, max_x, max_y,
                   point, report_ret, events, abs_obj, regmap_lock, sleep_pc>>
    /\ UNCHANGED <<xferVars, idVars>>

InitProbe ==
    /\ XferInit
    /\ IdIdle
    /\ TouchIdle
    /\ ppc = "start"
    /\ probe_rv = 0
    /\ input = NoInput
    /\ irq_requested = FALSE

NextProbe ==
    \/ ft8756_spi_probe
    \/ ProbeIdentify
    \/ ProbeIdentified
    \/ ft8756_input_dev_config
    \/ ProbeRequestIrq
    \/ IrqFire
    \/ ft8756_irq_handler

SpecProbe == InitProbe /\ [][NextProbe]_vars

\* C36: the handler, and so ft8756_report, runs only after the
\* identification succeeded and the input device was allocated, given its
\* 10 slots and registered: the interrupt is requested only after
\* ft8756_check_chip_id and ft8756_input_dev_config both returned 0, and a
\* probe in which either failed returns the error and requests no interrupt
C36_IrqAfterIdentifyAndConfig ==
    /\ irq_requested =>
          /\ idpc = "done" /\ id_rv = 0
          /\ variant \in {"primary", "secondary"}
          /\ input = [allocated |-> TRUE, slots |-> 10, registered |-> TRUE]
          /\ ppc = "done" /\ probe_rv = 0
    /\ thread # "idle" => irq_requested
    /\ ppc = "failed" =>
          /\ ~irq_requested
          /\ probe_rv # 0
          /\ thread = "idle"
    /\ (idpc = "done" /\ id_rv # 0 /\ ppc \notin {"identify"}) =>
          (ppc = "failed" /\ probe_rv = id_rv /\ ~input.allocated)
    /\ (input # NoInput /\ ~input.registered) =>
          (ppc = "failed" /\ id_rv = 0)

\* the probe succeeded by the fallback and the handler is running
C36_Witness ==
    /\ irq_requested
    /\ variant = "secondary"
    /\ input.registered
    /\ thread = "running"

\* a probe whose identification failed
C36_FailedIdWitness ==
    /\ ppc = "failed"
    /\ idpc = "done"
    /\ id_rv # 0
    /\ probe_rv = id_rv

\* a probe whose input device could not be registered
C36_FailedConfigWitness ==
    /\ ppc = "failed"
    /\ input.slots = 10
    /\ ~input.registered

(***************************************************************************)
(* The sleep command.  ft8756_internal_pm_suspend with the transport call  *)
(* its regmap_write makes, reached from ft8756_pm_suspend and from         *)
(* panel_unpreparing.                                                      *)
(***************************************************************************)
\* a write whose register is the power mode register 0xA5
SleepCommand_PowerModeRegister == <<165, FT8756_REG_POWER_MODE_SLEEP>>

\* regmap_write(ts->regmap, FT8756_REG_POWER_MODE_SLEEP,
\*              FT8756_REG_POWER_MODE_SLEEP): register, then value
SleepCommand == <<FT8756_REG_POWER_MODE_SLEEP, FT8756_REG_POWER_MODE_SLEEP>>

\* the lock is held: the transport is called with the command
SleepWrite ==
    /\ sleep_pc = "write"
    /\ pc = "idle"
    /\ ft8756_spi_write(SleepCommand)
    /\ UNCHANGED <<idVars, touchVars, probeVars>>

\* the transport call returned to ft8756_internal_pm_suspend, which does
\* not look at the result
SleepWriteReturn ==
    /\ pc = "returned"
    /\ fn = "write"
    /\ InternalSuspendReturns
    /\ pc' = "idle"
    /\ UNCHANGED <<fn, txBuf, txlen, rxBuf, dp, crc, i, ret, val_buf, val_size,
                   rv, calls, buf0, hist, accepted, settles, devres>>
    /\ UNCHANGED <<idVars, probeVars>>

\* a suspend of a device that follows no panel begins
SleepSuspend == calls < MaxCalls /\ ft8756_pm_suspend

\* the panel is about to be unprepared
SleepUnpreparing == calls < MaxCalls /\ panel_unpreparing

NextSleep ==
    \/ SleepSuspend
    \/ SleepUnpreparing
    \/ panel_unpreparing_return
    \/ ft8756_internal_pm_suspend
    \/ SleepWrite
    \/ ft8756_spi_write_loop
    \/ ft8756_spi_write_return
    \/ SleepWriteReturn
    \/ ft8756_pm_resume
    \/ panel_prepared

SpecSleep == InitTouch /\ [][NextSleep]_vars

\* the transport call of a suspend has been made and its frame has been
\* built (the buffers were allocated); the suspend has not returned yet
SleepWriteIssued == sleep_pc = "write" /\ pc # "idle" /\ txlen > 0

\* C37: on suspend the driver issues exactly one write, whose register is
\* FT8756_REG_POWER_MODE (0xA5) and whose value is
\* FT8756_REG_POWER_MODE_SLEEP (0x03)
C37_SleepWritesPowerMode ==
    SleepWriteIssued =>
        /\ fn = "write"
        /\ buf0 = <<165, 3>>
        /\ Transmitted = <<165, 0, 0, 1, 0, 0, 0, 3>>

\* what the write of a suspend is: register 0x03 with value 0x03
C37_SleepWritesValueRegister ==
    SleepWriteIssued =>
        /\ fn = "write"
        /\ buf0 = <<3, 3>>
        /\ Transmitted = <<3, 0, 0, 1, 0, 0, 0, 3>>

C37_SleepWriteWitness == SleepWriteIssued /\ pc = "returned" /\ rv = 0

\* each suspend makes one transport call: the transport is idle outside
\* the suspend, the count of calls rises by one when the call is made and
\* the suspend ends only when that call has returned
C37_OneWritePerSuspend ==
    /\ [](sleep_pc # "write" => pc = "idle")
    /\ [][calls' # calls =>
             (sleep_pc = "write" /\ pc = "idle" /\ pc' # "idle"
                /\ calls' = calls + 1)]_vars
    /\ [][(sleep_pc = "write" /\ sleep_pc' # "write") =>
             (pc = "returned" /\ pc' = "idle")]_vars

(***************************************************************************)
(* The transfer buffers of the device.                                     *)
(***************************************************************************)
\* no call is in progress
NoCallInProgress == pc \in {"idle", "returned"}

\* C38: every transmit/receive buffer a read or write call allocates is
\* released by the time the call returns, on every return path: whenever no
\* call is in progress the device holds as many transfer buffers as before
\* the first call, none
C38_BuffersReleasedOnReturn == NoCallInProgress => devres = 0

\* what the device holds: no step releases a buffer and a call whose
\* allocations succeed leaves two more with the device
C38_BuffersAccumulate ==
    [][ /\ devres' >= devres
        /\ (NoCallInProgress /\ pc' = "loop") => devres' = devres + 2
        /\ ~NoCallInProgress => devres' = devres
      ]_vars

\* two calls returned, each having completed its exchanges: four buffers
C38_GrowthWitness ==
    pc = "returned" /\ calls = 2 /\ rv = 0 /\ devres = 4

====
